---- MODULE Spec2Model ----
(***************************************************************************)
(* A model of autotrader.py: the search loop of main with the per-URL file *)
(* cache (Spec), filter_and_rank_cars (SpecFilter) and sort_cars_with_gpt  *)
(* (SpecRank).                                                             *)
(***************************************************************************)
EXTENDS Integers, Sequences, FiniteSets, TLC

VARIABLES
    pc,             \* position of main
    termIdx,        \* index of the search term the for loop of main is at
    car_page_urls,  \* listing URLs of the current term not yet fetched
    car_pages,      \* records get_car_pages has gathered for the current term
    car_data_list,  \* records main has accumulated
    cache,          \* the files of CACHE_FOLDER, by URL
    requests,       \* number of GET requests sent for each listing URL
    lastFetch,      \* what the last call of fetch_car_page saw and did
    termLog,        \* per term searched so far: how its iteration went
    slept,          \* TRUE when time.sleep ran since the last search request
    criteria,       \* arguments of the call of filter_and_rank_cars
    filtered_cars,  \* what filter_and_rank_cars returned
    cars,           \* argument of the call of sort_cars_with_gpt
    gpt_response,   \* what the ranking service answered
    sorted_cars     \* what sort_cars_with_gpt returned

loopVars == <<termIdx, car_page_urls, car_pages, cache, requests, lastFetch,
              termLog, slept>>
filterVars == <<criteria, filtered_cars>>
rankVars == <<cars, gpt_response, sorted_cars>>

vars == <<pc, car_data_list, loopVars, filterVars, rankVars>>

----------------------------------------------------------------------------
(* Bounds of the model *)

NumTerms == 2
NumUrls == 2
MaxAnchors == 2

Terms == 1..NumTerms
Urls == 1..NumUrls

(* Program constants *)

CACHE_DAYS == 7

(* Python values *)

None == [type |-> "NoneType"]
EmptyDict == [type |-> "dict"]
Raise == [type |-> "Exception"]
Malformed == [type |-> "not JSON"]

\* the dict extract_car_data builds for a page that carries the payload
Record(url) == [type |-> "dict", url |-> url]

\* truth value of an Optional[Dict]
Truthy(car_data) == car_data # None /\ car_data # EmptyDict

(* Ages, in days, of the cache files an earlier run has left *)
InitAges == {CACHE_DAYS - 1, CACHE_DAYS}

NoFile == [exists |-> FALSE, age |-> 0, content |-> None]

CacheFiles ==
    {NoFile} \cup
    [exists : {TRUE}, age : InitAges,
     content : {Malformed} \cup {Record(u) : u \in Urls}]

\* a search page: the href of each anchor, 0 for a link that does not
\* start with '/a/'
SearchPages ==
    UNION {[1..n -> Urls \cup {0}] : n \in 0..MaxAnchors}

----------------------------------------------------------------------------
(* The cache store *)

\* a slip in the comparison of is_url_cached
is_url_cached_le(url) ==
    /\ cache[url].exists
    /\ cache[url].age <= CACHE_DAYS

\* is_url_cached: the file exists and its age, datetime.now() minus its
\* modification time, is less than timedelta(days=CACHE_DAYS)
is_url_cached(url) ==
    /\ cache[url].exists
    /\ cache[url].age < CACHE_DAYS

\* load_url_cache: json.load of the file; Raise stands for the
\* JSONDecodeError of a malformed file
load_url_cache(url) ==
    IF cache[url].exists
    THEN IF cache[url].content = Malformed THEN Raise
         ELSE cache[url].content
    ELSE None

\* save_url_cache: the file is overwritten, which makes its age zero
save_url_cache(url, car_data) ==
    [cache EXCEPT ![url] = [exists |-> TRUE, age |-> 0, content |-> car_data]]

----------------------------------------------------------------------------
(* The page fetcher *)

\* what requests.get and extract_car_data can do for a listing page
NetOutcomes == {"RequestException", "no payload", "ok"}

\* fetch_car_page: the value returned, the cache it leaves and whether a
\* GET request was sent
fetch_car_page(url, net) ==
    IF is_url_cached(url)
    THEN LET loaded == load_url_cache(url)
         IN  [result  |-> IF loaded = Raise THEN None ELSE loaded,
              cache   |-> cache,
              network |-> FALSE]
    ELSE IF net = "RequestException"
    THEN [result |-> None, cache |-> cache, network |-> TRUE]
    ELSE LET car_data == IF net = "ok" THEN Record(url) ELSE EmptyDict
         IN  [result  |-> car_data,
              cache   |-> IF Truthy(car_data)
                          THEN save_url_cache(url, car_data) ELSE cache,
              network |-> TRUE]

\* get_car_page_urls: the hrefs that start with '/a/', through set()
get_car_page_urls(search_page) ==
    {search_page[i] : i \in DOMAIN search_page} \ {0}

----------------------------------------------------------------------------
(* main *)

\* no call of filter_and_rank_cars or of sort_cars_with_gpt yet
FilterIdle == criteria = None /\ filtered_cars = None
RankIdle == cars = <<>> /\ gpt_response = None /\ sorted_cars = None

NoFetch == [url |-> 0, exists |-> FALSE, age |-> 0, content |-> None,
            network |-> FALSE, result |-> None]

Init ==
    /\ pc = "search"
    /\ termIdx = 1
    /\ car_page_urls = {}
    /\ car_pages = <<>>
    /\ car_data_list = <<>>
    /\ cache \in [Urls -> CacheFiles]
    /\ \A u \in Urls : cache[u].exists => cache[u].content \in {Malformed, Record(u)}
    /\ requests = [u \in Urls |-> 0]
    /\ lastFetch = NoFetch
    /\ termLog = <<>>
    /\ slept = FALSE
    /\ FilterIdle
    /\ RankIdle

\* the for statement: the next term, or the code after the loop
NextTerm == IF termIdx < NumTerms THEN "search" ELSE "after_loop"

\* a failed search that leaves the loop instead of going on
SearchFails_break ==
    /\ pc = "search"
    /\ termLog' = Append(termLog, [delayed |-> slept, search |-> "failed"])
    /\ slept' = FALSE
    /\ pc' = "after_loop"
    /\ UNCHANGED <<termIdx, car_page_urls, car_pages, car_data_list, cache,
                   requests, lastFetch>>
    /\ UNCHANGED <<filterVars, rankVars>>

\* search_autotrader raises RequestException inside and returns None:
\* main goes to the time.sleep at the end of the loop body
SearchFails ==
    /\ pc = "search"
    /\ termLog' = Append(termLog, [delayed |-> slept, search |-> "failed"])
    /\ slept' = FALSE
    /\ pc' = "sleep"
    /\ UNCHANGED <<termIdx, car_page_urls, car_pages, car_data_list, cache,
                   requests, lastFetch>>
    /\ UNCHANGED <<filterVars, rankVars>>

\* search_autotrader returns a page and get_car_page_urls reads its links
SearchSucceeds ==
    /\ pc = "search"
    /\ \E search_page \in SearchPages :
          car_page_urls' = get_car_page_urls(search_page)
    /\ car_pages' = <<>>
    /\ termLog' = Append(termLog, [delayed |-> slept, search |-> "page"])
    /\ slept' = FALSE
    /\ pc' = "get_car_pages"
    /\ UNCHANGED <<termIdx, car_data_list, cache, requests, lastFetch>>
    /\ UNCHANGED <<filterVars, rankVars>>

\* one iteration of the loop of get_car_pages
GetCarPage ==
    /\ pc = "get_car_pages"
    /\ \E url \in car_page_urls, net \in NetOutcomes :
          LET f == fetch_car_page(url, net)
          IN  /\ car_page_urls' = car_page_urls \ {url}
              /\ car_pages' = IF Truthy(f.result)
                              THEN Append(car_pages, f.result) ELSE car_pages
              /\ cache' = f.cache
              /\ requests' = IF f.network
                             THEN [requests EXCEPT ![url] = @ + 1] ELSE requests
              /\ lastFetch' = [url |-> url, exists |-> cache[url].exists,
                               age |-> cache[url].age,
                               content |-> cache[url].content,
                               network |-> f.network, result |-> f.result]
    /\ UNCHANGED <<pc, termIdx, car_data_list, termLog, slept>>
    /\ UNCHANGED <<filterVars, rankVars>>

\* "if not car_pages: continue"
NoPages ==
    /\ pc = "get_car_pages"
    /\ car_page_urls = {}
    /\ car_pages = <<>>
    /\ termLog' = [termLog EXCEPT ![termIdx].search = "no pages"]
    /\ pc' = NextTerm
    /\ termIdx' = termIdx + 1
    /\ UNCHANGED <<car_page_urls, car_pages, car_data_list, cache,
                   requests, lastFetch, slept>>
    /\ UNCHANGED <<filterVars, rankVars>>

RECURSIVE AppendUsable(_, _)
\* "for car_data in car_pages: if car_data and 'url' in car_data: append"
AppendUsable(list, pages) ==
    IF pages = <<>> THEN list
    ELSE AppendUsable(
            IF Truthy(Head(pages)) /\ "url" \in DOMAIN Head(pages)
            THEN Append(list, Head(pages)) ELSE list,
            Tail(pages))

Accumulate ==
    /\ pc = "get_car_pages"
    /\ car_page_urls = {}
    /\ car_pages # <<>>
    /\ car_data_list' = AppendUsable(car_data_list, car_pages)
    /\ pc' = "sleep"
    /\ UNCHANGED <<termIdx, car_page_urls, car_pages, cache, requests,
                   lastFetch, termLog, slept>>
    /\ UNCHANGED <<filterVars, rankVars>>

\* time.sleep(SEARCH_DELAY), the last statement of the loop body
Sleep ==
    /\ pc = "sleep"
    /\ slept' = TRUE
    /\ pc' = NextTerm
    /\ termIdx' = termIdx + 1
    /\ UNCHANGED <<car_page_urls, car_pages, car_data_list, cache,
                   requests, lastFetch, termLog>>
    /\ UNCHANGED <<filterVars, rankVars>>

\* "if not car_data_list: return", else on to filter_and_rank_cars
AfterLoop ==
    /\ pc = "after_loop"
    /\ pc' = IF car_data_list = <<>> THEN "exit" ELSE "filter"
    /\ UNCHANGED <<termIdx, car_page_urls, car_pages, car_data_list, cache,
                   requests, lastFetch, termLog, slept>>
    /\ UNCHANGED <<filterVars, rankVars>>

Next ==
    \/ SearchFails
    \/ SearchSucceeds
    \/ GetCarPage
    \/ NoPages
    \/ Accumulate
    \/ Sleep
    \/ AfterLoop

Spec == Init /\ [][Next]_vars

----------------------------------------------------------------------------
(* Properties of the search loop and of the cache *)

LoopOver == pc \in {"after_loop", "exit", "filter"}

Fetched == lastFetch.url # 0

\* the cache file fetch_car_page found was within its time to live
FoundFresh == lastFetch.exists /\ lastFetch.age < CACHE_DAYS

\* C3: after the search loop, no two records of car_data_list have the same
\* url, also when two search terms discover the same listing
C3_UniqueUrls ==
    LoopOver =>
        \A i, j \in DOMAIN car_data_list :
            i # j => car_data_list[i].url # car_data_list[j].url

\* C4: fetch_car_page sends no request and returns the cached record exactly
\* when the cache file exists and is less than CACHE_DAYS old; a missing file
\* or one of CACHE_DAYS or more is fetched over the network
C4_CacheFreshness ==
    Fetched =>
        /\ ~lastFetch.network <=> (lastFetch.exists /\ lastFetch.age < CACHE_DAYS)
        /\ (FoundFresh /\ lastFetch.content # Malformed)
               => lastFetch.result = lastFetch.content
        /\ lastFetch.network => lastFetch.result \in {None, EmptyDict, Record(lastFetch.url)}

\* a file of exactly CACHE_DAYS was fetched over the network, after a younger
\* file of the same term was served from the cache without a request
C4_Witness ==
    /\ lastFetch.exists /\ lastFetch.age = CACHE_DAYS /\ lastFetch.network
    /\ \E u \in Urls :
          /\ requests[u] = 0
          /\ \E i \in DOMAIN car_pages : car_pages[i] = Record(u)

\* C5: a malformed cache file within its time to live is a cache miss:
\* fetch_car_page fetches the page over the network and returns what
\* extract_car_data makes of it
C5_MalformedIsMiss ==
    (Fetched /\ FoundFresh /\ lastFetch.content = Malformed) =>
        /\ lastFetch.network
        /\ lastFetch.result \in {EmptyDict, Record(lastFetch.url)}

\* the steps that end a term without records: the search failed, or
\* get_car_pages returned nothing
TermSkipped ==
    \/ pc = "search" /\ pc' = "sleep"
    \/ pc = "get_car_pages" /\ car_page_urls = {} /\ car_pages = <<>> /\ pc' # pc

\* C9: a term whose search fails or that yields no listing URLs or no usable
\* records does not abort the loop: the accumulated records stay as they
\* are, and when the loop is over every term has been searched
C9_SkipDoesNotAbort ==
    /\ [][TermSkipped => car_data_list' = car_data_list]_vars
    /\ [][\E n \in 0..Len(car_data_list') :
             car_data_list = SubSeq(car_data_list', 1, n)]_vars
    /\ [](LoopOver => Len(termLog) = NumTerms)

\* the loop is over, an earlier term has left records, and a later term
\* failed or had no pages
C9_Witness ==
    /\ LoopOver
    /\ car_data_list # <<>>
    /\ termLog[1].search = "page"
    /\ termLog[NumTerms].search \in {"failed", "no pages"}

\* C10: between the search requests of two consecutive terms time.sleep
\* always runs, also when the earlier term had no listing pages or its
\* search failed
C10_DelayBetweenSearches ==
    \A t \in DOMAIN termLog : t > 1 => termLog[t].delayed

\* C11: within one run of main every listing URL is fetched over the network
\* at most once, however many terms discover it and whether or not its
\* first fetch or extraction succeeded
C11_FetchedAtMostOnce ==
    \A u \in Urls : requests[u] <= 1

----------------------------------------------------------------------------
(* Python strings and numbers *)

\* a str is the sequence of its characters; a dict value carries its type
PyStr(chars) == [t |-> "str", v |-> chars]
PyInt(n) == [t |-> "int", v |-> n]

ValueError == [t |-> "ValueError", v |-> 0]

DigitChars == <<"0", "1", "2", "3", "4", "5", "6", "7", "8", "9">>

IsDigit(c) == \E i \in DOMAIN DigitChars : DigitChars[i] = c

DigitVal(c) == (CHOOSE i \in DOMAIN DigitChars : DigitChars[i] = c) - 1

\* code point of a character, the order str comparison goes by
Ord(c) ==
    CASE c = " " -> 32
      [] c = "$" -> 36
      [] c = "," -> 44
      [] c = "-" -> 45
      [] IsDigit(c) -> 48 + DigitVal(c)
      [] c = "k" -> 107
      [] c = "m" -> 109
      [] c = "x" -> 120

RECURSIVE StrLess(_, _)
\* a < b on str: lexicographic by code point, a proper prefix first
StrLess(a, b) ==
    IF b = <<>> THEN FALSE
    ELSE IF a = <<>> THEN TRUE
    ELSE IF Head(a) # Head(b) THEN Ord(Head(a)) < Ord(Head(b))
    ELSE StrLess(Tail(a), Tail(b))

RECURSIVE Remove(_, _)
\* s.replace(sub, ""): every occurrence of sub, left to right, taken out
Remove(s, sub) ==
    IF Len(s) < Len(sub) THEN s
    ELSE IF SubSeq(s, 1, Len(sub)) = sub
    THEN Remove(SubSeq(s, Len(sub) + 1, Len(s)), sub)
    ELSE <<Head(s)>> \o Remove(Tail(s), sub)

RECURSIVE Strip(_)
\* the white space that int() and float() skip at both ends
Strip(s) ==
    IF s = <<>> THEN s
    ELSE IF Head(s) = " " THEN Strip(Tail(s))
    ELSE IF s[Len(s)] = " " THEN Strip(SubSeq(s, 1, Len(s) - 1))
    ELSE s

RECURSIVE DecimalValue(_)
DecimalValue(digits) ==
    IF digits = <<>> THEN 0
    ELSE 10 * DecimalValue(SubSeq(digits, 1, Len(digits) - 1))
         + DigitVal(digits[Len(digits)])

\* a slip: text that is no number counts as 0
int_str_lenient(chars) ==
    LET body == Strip(chars)
    IN  IF body # <<>> /\ \A i \in DOMAIN body : IsDigit(body[i])
        THEN PyInt(DecimalValue(body))
        ELSE PyInt(0)

\* int(s) and float(s) of a str made of the characters of Ord, none of
\* which is a sign, a decimal point or an exponent: the digits' value, or
\* ValueError
int_str(chars) ==
    LET body == Strip(chars)
    IN  IF body # <<>> /\ \A i \in DOMAIN body : IsDigit(body[i])
        THEN PyInt(DecimalValue(body))
        ELSE ValueError

\* int(x) of a dict value
int_value(x) == IF x.t = "int" THEN x ELSE int_str(x.v)

RECURSIVE Split(_, _)
\* s.split(sep) for a separator of one character
Split(s, sep) ==
    IF \A i \in DOMAIN s : s[i] # sep THEN <<s>>
    ELSE LET k == CHOOSE i \in DOMAIN s :
                      s[i] = sep /\ \A j \in 1..(i - 1) : s[j] # sep
         IN  <<SubSeq(s, 1, k - 1)>> \o Split(SubSeq(s, k + 1, Len(s)), sep)

\* d.get(key, default)
Get(d, key, default) == IF key \in DOMAIN d THEN d[key] ELSE default

----------------------------------------------------------------------------
(* filter_and_rank_cars *)

\* the first statement: year_range is one year or start-end; ok is FALSE
\* where int() or the unpacking of the two parts raises ValueError
ParseYearRange(year_range) ==
    IF \E i \in DOMAIN year_range : year_range[i] = "-"
    THEN LET parts == Split(year_range, "-")
         IN  IF Len(parts) = 2 /\ int_str(parts[1]) # ValueError
                               /\ int_str(parts[2]) # ValueError
             THEN [ok |-> TRUE, year_start |-> int_str(parts[1]).v,
                   year_end |-> int_str(parts[2]).v]
             ELSE [ok |-> FALSE, year_start |-> 0, year_end |-> 0]
    ELSE IF int_str(year_range) # ValueError
         THEN [ok |-> TRUE, year_start |-> int_str(year_range).v,
               year_end |-> int_str(year_range).v]
         ELSE [ok |-> FALSE, year_start |-> 0, year_end |-> 0]

\* "Extract and clean data": the three numbers of a record, or ValueError
Coerce(car_data) ==
    LET price_raw == Remove(Remove(Get(car_data, "price", PyStr(<<"0">>)).v,
                                   <<",">>), <<"$">>)
        mileage_raw == Remove(Remove(Get(car_data, "mileage", PyStr(<<"0">>)).v,
                                     <<",">>), <<" ", "k", "m">>)
        price == IF price_raw # <<>> THEN int_str(price_raw) ELSE PyInt(0)
        mileage == IF mileage_raw # <<>> THEN int_str(mileage_raw) ELSE PyInt(0)
        year == int_value(Get(car_data, "year", PyInt(0)))
    IN  IF ValueError \in {price, mileage, year} THEN ValueError
        ELSE [t |-> "ok", price |-> price.v, mileage |-> mileage.v,
              year |-> year.v]

\* "Filtering logic": the record is appended to filtered_cars
Passes(car_data, max_mileage_km, yr, max_price) ==
    LET c == Coerce(car_data)
    IN  /\ c # ValueError
        /\ ~(c.price > max_price)
        /\ ~(c.mileage > max_mileage_km)
        /\ yr.year_start <= c.year /\ c.year <= yr.year_end

\* the sort key: the price and mileage values as the record holds them
SortKey(car) == <<Get(car, "price", PyInt(0)), Get(car, "mileage", PyInt(0))>>

\* x < y on values of one type
ValueLess(x, y) == IF x.t = "int" THEN x.v < y.v ELSE StrLess(x.v, y.v)

\* comparing the keys of a and b compares a str with an int: TypeError
KeysIncomparable(a, b) ==
    LET ka == SortKey(a)
        kb == SortKey(b)
    IN  \/ ka[1].t # kb[1].t
        \/ ka[1] = kb[1] /\ ka[2].t # kb[2].t

\* tuple comparison of the keys
KeyLess(a, b) ==
    LET ka == SortKey(a)
        kb == SortKey(b)
    IN  IF ka[1] # kb[1] THEN ValueLess(ka[1], kb[1])
        ELSE ka[2] # kb[2] /\ ValueLess(ka[2], kb[2])

RECURSIVE Insert(_, _)
\* car goes behind every element that is not greater than it
Insert(sortedList, car) ==
    IF sortedList = <<>> THEN <<car>>
    ELSE IF KeyLess(car, Head(sortedList)) THEN <<car>> \o sortedList
    ELSE <<Head(sortedList)>> \o Insert(Tail(sortedList), car)

RECURSIVE Sorted(_)
\* sorted(list, key=...): stable
Sorted(list) ==
    IF list = <<>> THEN <<>>
    ELSE Insert(Sorted(SubSeq(list, 1, Len(list) - 1)), list[Len(list)])

\* the value of the call: the list returned, or raised where sorted() meets
\* keys it cannot compare
filter_and_rank_cars(list, max_mileage_km, year_range, max_price) ==
    LET yr == ParseYearRange(year_range)
        filtered == SelectSeq(list,
                        LAMBDA car : Passes(car, max_mileage_km, yr, max_price))
    IN  IF ~yr.ok THEN [raised |-> FALSE, cars |-> <<>>]
        ELSE IF \E i, j \in DOMAIN filtered :
                    KeysIncomparable(filtered[i], filtered[j])
        THEN [raised |-> TRUE, cars |-> <<>>]
        ELSE [raised |-> FALSE, cars |-> Sorted(filtered)]

----------------------------------------------------------------------------
(* Calls of filter_and_rank_cars *)

MaxCars == 2

P9000 == PyStr(<<"9", "0", "0", "0">>)
P15000 == PyStr(<<"1", "5", "0", "0", "0">>)
M30000 == PyStr(<<"3", "0", "0", "0", "0">>)
M120000 == PyStr(<<"1", "2", "0", "0", "0", "0">>)
Y2019 == PyStr(<<"2", "0", "1", "9">>)
Y2025 == PyStr(<<"2", "0", "2", "5">>)

Empty == PyStr(<<>>)
NoNumber == PyStr(<<"x">>)
Priced == PyStr(<<"$", "9", ",", "0", "0", "0">>)
Metered == PyStr(<<"3", "0", ",", "0", "0", "0", " ", "k", "m">>)

\* records as extract_car_data builds them from a complete listing page
ListedCars == [price : {P9000, P15000}, mileage : {M30000, M120000},
               year : {Y2019, Y2025}]

BaseCar == [price |-> P9000, mileage |-> M30000, year |-> Y2019]

Without(d, key) == [k \in DOMAIN d \ {key} |-> d[k]]

\* records one field of which is empty, no number, not cleaned, of another
\* type or not there
OddCars ==
    {[BaseCar EXCEPT !.price = x] : x \in {Empty, NoNumber, Priced}}
    \cup {[BaseCar EXCEPT !.mileage = x] : x \in {Empty, NoNumber, Metered}}
    \cup {[BaseCar EXCEPT !.year = x] : x \in {Empty, NoNumber, PyInt(2019)}}
    \cup {Without(BaseCar, key) : key \in {"price", "mileage", "year"}}

CarPool == ListedCars \cup OddCars

MaxMileages == {0, 50000}
MaxPrices == {0, 10000, 20000}
YearRanges == {<<"2", "0", "1", "9">>,
               <<"2", "0", "1", "9", "-", "2", "0", "2", "4">>,
               <<"x", "-", "2", "0", "2", "4">>}

LoopIdle ==
    /\ termIdx = 1
    /\ car_page_urls = {}
    /\ car_pages = <<>>
    /\ cache = [u \in Urls |-> NoFile]
    /\ requests = [u \in Urls |-> 0]
    /\ lastFetch = NoFetch
    /\ termLog = <<>>
    /\ slept = FALSE

InitFilter ==
    /\ pc = "input"
    /\ car_data_list = <<>>
    /\ LoopIdle
    /\ FilterIdle
    /\ RankIdle

\* the caller puts one more record on the list it will pass
AddCar ==
    /\ pc = "input"
    /\ Len(car_data_list) < MaxCars
    /\ \E car \in CarPool : car_data_list' = Append(car_data_list, car)
    /\ UNCHANGED <<pc, loopVars, filterVars, rankVars>>

\* filter_and_rank_cars(car_data_list, max_mileage_km, year_range, max_price)
FilterAndRank ==
    /\ pc = "input"
    /\ \E max_mileage_km \in MaxMileages, year_range \in YearRanges,
          max_price \in MaxPrices :
          /\ criteria' = [max_mileage_km |-> max_mileage_km,
                          year_range |-> year_range, max_price |-> max_price]
          /\ filtered_cars' = filter_and_rank_cars(car_data_list,
                                  max_mileage_km, year_range, max_price)
    /\ pc' = "filtered"
    /\ UNCHANGED <<car_data_list, loopVars, rankVars>>

NextFilter ==
    \/ AddCar
    \/ FilterAndRank

SpecFilter == InitFilter /\ [][NextFilter]_vars

----------------------------------------------------------------------------
(* Properties of filter_and_rank_cars *)

Filtered == pc = "filtered" /\ ~filtered_cars.raised

InOutput(car) == \E i \in DOMAIN filtered_cars.cars : filtered_cars.cars[i] = car

\* the text of a field with the separators, the currency sign and the unit
\* taken out
Cleaned(car, key) ==
    Remove(Remove(Remove(car[key].v, <<",">>), <<"$">>), <<" ", "k", "m">>)

IsNumberText(chars) == chars # <<>> /\ \A i \in DOMAIN chars : IsDigit(chars[i])

\* the number a field stands for; 0 for a field that is empty or not there
NumberOf(car, key) ==
    IF key \notin DOMAIN car THEN 0
    ELSE IF car[key].t = "int" THEN car[key].v
    ELSE DecimalValue(Cleaned(car, key))

\* the year range as two numbers, for the ranges that are well formed
RangeOf(year_range) ==
    IF Len(year_range) = 4
    THEN <<DecimalValue(year_range), DecimalValue(year_range)>>
    ELSE <<DecimalValue(SubSeq(year_range, 1, 4)),
           DecimalValue(SubSeq(year_range, 6, 9))>>

WellFormedRange(year_range) == year_range[1] # "x"

\* the field is not there, is the empty string or is text that is no number
Uncoercible(car, key) ==
    \/ key \notin DOMAIN car
    \/ car[key].t = "str" /\ ~IsNumberText(Cleaned(car, key))

\* the field holds text that is not empty and is no number
NonNumericText(car, key) ==
    /\ key \in DOMAIN car
    /\ car[key].t = "str"
    /\ Cleaned(car, key) # <<>>
    /\ ~IsNumberText(Cleaned(car, key))

CarKeys == {"price", "mileage", "year"}

\* C1: a zero max_mileage_km or max_price is no bound: a record with its
\* year in the range passes when one of them is 0 and the other bound is
\* satisfied, whatever its value in the unbounded field
C1_ZeroMeansUnbounded ==
    (Filtered /\ WellFormedRange(criteria.year_range)) =>
        \A i \in DOMAIN car_data_list :
            LET car == car_data_list[i]
                yr == RangeOf(criteria.year_range)
            IN  ( /\ \A key \in CarKeys : ~Uncoercible(car, key)
                  /\ yr[1] <= NumberOf(car, "year")
                  /\ NumberOf(car, "year") <= yr[2]
                  /\ \/ criteria.max_mileage_km = 0
                     \/ criteria.max_price = 0
                  /\ \/ criteria.max_mileage_km = 0
                     \/ NumberOf(car, "mileage") <= criteria.max_mileage_km
                  /\ \/ criteria.max_price = 0
                     \/ NumberOf(car, "price") <= criteria.max_price )
                => InOutput(car)

\* C2: the list returned is in ascending order of the numbers (price,
\* mileage), for records as extract_car_data makes them, whose price and
\* mileage are digit strings of any length
C2_NumericOrder ==
    (Filtered /\ \A i \in DOMAIN car_data_list : car_data_list[i] \in ListedCars) =>
        \A i \in 1..(Len(filtered_cars.cars) - 1) :
            LET a == filtered_cars.cars[i]
                b == filtered_cars.cars[i + 1]
            IN  \/ NumberOf(a, "price") < NumberOf(b, "price")
                \/ /\ NumberOf(a, "price") = NumberOf(b, "price")
                   /\ NumberOf(a, "mileage") <= NumberOf(b, "mileage")

----------------------------------------------------------------------------
(* sort_cars_with_gpt *)

MAX_CARS_TO_SEND == 100

\* cars[:MAX_CARS_TO_SEND]
Truncate(list) ==
    IF Len(list) > MAX_CARS_TO_SEND THEN SubSeq(list, 1, MAX_CARS_TO_SEND)
    ELSE list

\* "for idx, car in enumerate(cars): car['id'] = idx"
AssignIds(list) == [i \in DOMAIN list |-> ("id" :> (i - 1)) @@ list[i]]

\* the keys car.update sets from the original record
MergedKeys == {"make", "model", "year", "mileage", "price", "trim",
               "drivetrain", "body_type", "engine", "interior_color",
               "url", "color"}

\* a slip: values the service echoed are kept, update() taken for setdefault()
MergeOriginal_keep(car, original_car) ==
    car
    @@ ("Rank" :> Get(car, "Rk", "N/A"))
    @@ ("ChatGPT Reason" :> Get(car, "Rsn", "N/A"))
    @@ [key \in MergedKeys |-> Get(original_car, key, None)]

\* car.update({...}): rank and reason from the response element, the other
\* attributes from the original record
MergeOriginal(car, original_car) ==
    ("Rank" :> Get(car, "Rk", "N/A"))
    @@ ("ChatGPT Reason" :> Get(car, "Rsn", "N/A"))
    @@ [key \in MergedKeys |-> Get(original_car, key, None)]
    @@ car

\* "Map GPT output back to original car data", for one element that is a
\* dict with an id
MapBack(car, batch) ==
    IF \E i \in DOMAIN batch : batch[i]["id"] = car["id"]
    THEN LET first == CHOOSE i \in DOMAIN batch :
                         /\ batch[i]["id"] = car["id"]
                         /\ \A j \in 1..(i - 1) : batch[j]["id"] # car["id"]
         IN  MergeOriginal(car, batch[first])
    ELSE car

PyList(items) == [t |-> "list", items |-> items]

\* the value json.loads(gpt_output) is
IsObject(v) == v.j = "object"
HasId(v) == IsObject(v) /\ "id" \in DOMAIN v.o

\* the value sort_cars_with_gpt returns for the service's answer; every
\* exception ends in the outer "except Exception: return []"
sort_cars_with_gpt(list, response) ==
    LET batch == AssignIds(Truncate(list))
    IN  IF response.kind = "error" THEN PyList(<<>>)
        ELSE IF response.kind = "not JSON" THEN PyList(<<>>)
        ELSE LET v == response.value
             IN  CASE v.j = "array" ->
                        IF \A i \in DOMAIN v.a : HasId(v.a[i])
                        THEN PyList([i \in DOMAIN v.a |-> MapBack(v.a[i].o, batch)])
                        ELSE PyList(<<>>)
                   [] v.j = "object" ->
                        IF DOMAIN v.o = {} THEN [t |-> "dict", items |-> <<>>]
                        ELSE PyList(<<>>)
                   [] v.j = "string" ->
                        IF v.s = "" THEN [t |-> "str", items |-> <<>>]
                        ELSE PyList(<<>>)
                   [] OTHER -> PyList(<<>>)

----------------------------------------------------------------------------
(* Calls of sort_cars_with_gpt *)

MaxBatch == 2
MaxAnswers == 2

Murano == [url |-> "/a/nissan/murano/1", make |-> "Nissan", model |-> "Murano",
           year |-> "2019", mileage |-> "30000", price |-> "9000",
           trim |-> "SL", drivetrain |-> "AWD", color |-> "Red",
           interior_color |-> "Black", engine |-> "V6"]

Rav4 == [url |-> "/a/toyota/rav4/2", make |-> "Toyota", model |-> "RAV4",
         year |-> "2020", mileage |-> "120000", price |-> "15000",
         trim |-> "LE", drivetrain |-> "FWD", color |-> "Blue",
         interior_color |-> "Grey", engine |-> "I4"]

RankPool == {Murano, Rav4}

AnswerIds == 0..MaxBatch

\* the elements of an answer: with an id, with attributes of the car echoed
\* and altered, without id, and one that is no object
JObject(o) == [j |-> "object", o |-> o]
Plain(id) == [id |-> id, Rk |-> "1", Rsn |-> "good value", Mk |-> "Nissan"]
Echoed(id) == Plain(id) @@ [make |-> "Altered", url |-> "/a/altered", price |-> "1"]
NoId == [Rk |-> "1", Rsn |-> "good value"]
JNumber == [j |-> "number"]

AnswerElements ==
    {JObject(Plain(id)) : id \in AnswerIds}
    \cup {JObject(Echoed(id)) : id \in AnswerIds}
    \cup {JObject(NoId), JNumber}

JArray(a) == [j |-> "array", a |-> a]

JsonAnswers ==
    {JArray(a) : a \in UNION {[1..n -> AnswerElements] : n \in 0..MaxAnswers}}
    \cup {JObject(<<>>), JObject(NoId), [j |-> "string", s |-> ""],
          [j |-> "string", s |-> "ok"], JNumber, [j |-> "null"]}

\* the call of the service raises, or its text is no JSON, or it is JSON
Responses ==
    {[kind |-> "error"], [kind |-> "not JSON"]}
    \cup {[kind |-> "JSON", value |-> v] : v \in JsonAnswers}

InitRank ==
    /\ pc = "input"
    /\ car_data_list = <<>>
    /\ LoopIdle
    /\ FilterIdle
    /\ RankIdle

\* the caller puts one more record on the list it will pass
AddCandidate ==
    /\ pc = "input"
    /\ Len(cars) < MaxBatch
    /\ \E car \in RankPool : cars' = Append(cars, car)
    /\ UNCHANGED <<pc, car_data_list, loopVars, filterVars, gpt_response,
                   sorted_cars>>

\* sort_cars_with_gpt(cars)
RankCars ==
    /\ pc = "input"
    /\ \E response \in Responses :
          /\ gpt_response' = response
          /\ sorted_cars' = sort_cars_with_gpt(cars, response)
    /\ pc' = "ranked"
    /\ UNCHANGED <<car_data_list, loopVars, filterVars, cars>>

NextRank ==
    \/ AddCandidate
    \/ RankCars

SpecRank == InitRank /\ [][NextRank]_vars

----------------------------------------------------------------------------
(* Properties of sort_cars_with_gpt *)

Ranked == pc = "ranked"

\* the answer is a JSON array whose elements all are objects with an id
WellFormedAnswer ==
    /\ gpt_response.kind = "JSON"
    /\ gpt_response.value.j = "array"
    /\ \A i \in DOMAIN gpt_response.value.a :
          /\ gpt_response.value.a[i].j = "object"
          /\ "id" \in DOMAIN gpt_response.value.a[i].o

\* C6: every failure of the ranking call (transport error, text that is no
\* JSON, JSON that is no array of objects, an element without id) makes
\* sort_cars_with_gpt return the empty list
C6_FailureGivesEmptyList ==
    (Ranked /\ ~WellFormedAnswer) => sorted_cars = PyList(<<>>)

ClaimedKeys == {"url", "make", "model", "year", "mileage", "price", "trim"}

\* C7: for a well-formed answer the output has one element per answer
\* element, in the order of the answer; an element with the positional id
\* of a batch record carries that record's url, make, model, year, mileage,
\* price and trim, whatever the service echoed, and an element with another
\* id is kept as it came
C7_MergeById ==
    (Ranked /\ WellFormedAnswer) =>
        /\ sorted_cars.t = "list"
        /\ Len(sorted_cars.items) = Len(gpt_response.value.a)
        /\ \A i \in DOMAIN gpt_response.value.a :
              LET element == gpt_response.value.a[i].o
                  out == sorted_cars.items[i]
              IN  /\ out["id"] = element["id"]
                  /\ out["Rk"] = element["Rk"]
                  /\ IF element["id"] \in 0..(Len(cars) - 1)
                     THEN \A key \in ClaimedKeys :
                             out[key] = cars[element["id"] + 1][key]
                     ELSE out = element

\* an answer with an element that echoes altered attributes under the id of
\* a batch record, and an element whose id no batch record has
C7_Witness ==
    /\ Ranked /\ WellFormedAnswer
    /\ cars # <<>>
    /\ \E i, j \in DOMAIN gpt_response.value.a :
          /\ gpt_response.value.a[i].o = Echoed(Len(cars) - 1)
          /\ gpt_response.value.a[j].o["id"] = Len(cars)
          /\ sorted_cars.items[i]["make"] = cars[Len(cars)]["make"]
          /\ sorted_cars.items[j] = gpt_response.value.a[j].o

====
